---- MODULE Spec2Model ----
(***************************************************************************)
(* The view-counter endpoint of src/pages/api/views/[slug].ts: GET and     *)
(* POST handlers over the VISIT_COUNTER key-value binding.  Every await of *)
(* the handlers is a point where other requests interleave, so a request   *)
(* is a small process: it begins (the synchronous prefix up to the first   *)
(* await), resumes when the store's get settles, and resumes again when    *)
(* the store's put settles.                                                *)
(*                                                                         *)
(* Strings are sequences of one-character strings, so that parseInt and    *)
(* String are computed character by character.  A JavaScript number is a   *)
(* record [nan, n]: NaN, or the integer n (the model stays far below 2^53, *)
(* where number arithmetic on integers is exact).                          *)
(*                                                                         *)
(* The browser side follows the endpoint: ThemeToggle.svelte in two tabs   *)
(* that share localStorage (with the cookie banner, which writes to the    *)
(* same storage), and ContactForm.svelte with the Toast it mounts.  Each   *)
(* part has its own specification; the other parts stay as constructed.    *)
(***************************************************************************)
EXTENDS Integers, Sequences, FiniteSets, TLC

\* ------------------------------------------------------------------ bounds

\* Requests that arrive in one behaviour.
MaxReq == 3

\* Store operations that fail in one behaviour.
MaxFaults == 1

\* ------------------------------------------------------------ value domains

\* string | null, as the store's get returns it
Null == [isNull |-> TRUE, str |-> <<>>]
Str(s) == [isNull |-> FALSE, str |-> s]

\* a JavaScript number: NaN or an integer
NaN == [nan |-> TRUE, n |-> 0]
Num(k) == [nan |-> FALSE, n |-> k]

DigitChars == {"0", "1", "2", "3", "4", "5", "6", "7", "8", "9"}
WhiteSpace == {" "}

DigitVal(c) ==
  CASE c = "0" -> 0 [] c = "1" -> 1 [] c = "2" -> 2 [] c = "3" -> 3
    [] c = "4" -> 4 [] c = "5" -> 5 [] c = "6" -> 6 [] c = "7" -> 7
    [] c = "8" -> 8 [] c = "9" -> 9

DigitChar(d) ==
  CASE d = 0 -> "0" [] d = 1 -> "1" [] d = 2 -> "2" [] d = 3 -> "3"
    [] d = 4 -> "4" [] d = 5 -> "5" [] d = 6 -> "6" [] d = 7 -> "7"
    [] d = 8 -> "8" [] d = 9 -> "9"

\* ------------------------------------------------- parseInt(string, 10)

\* parseInt step 2: leading white space is skipped
RECURSIVE TrimStart(_)
TrimStart(s) ==
  IF s # <<>> /\ Head(s) \in WhiteSpace THEN TrimStart(Tail(s)) ELSE s

\* parseInt: the longest prefix of radix-10 digits
RECURSIVE DigitPrefix(_)
DigitPrefix(s) ==
  IF s # <<>> /\ Head(s) \in DigitChars
    THEN <<Head(s)>> \o DigitPrefix(Tail(s))
    ELSE <<>>

\* the mathematical integer a digit sequence denotes (acc: the digits read)
RECURSIVE DigitsValue(_, _)
DigitsValue(z, acc) ==
  IF z = <<>> THEN acc ELSE DigitsValue(Tail(z), 10 * acc + DigitVal(Head(z)))

\* parseInt(s, 10): white space, an optional sign, then digits; NaN when no
\* digit follows; anything after the digits is ignored
ParseInt(s) ==
  LET t == TrimStart(s)
      signed == t # <<>> /\ Head(t) \in {"+", "-"}
      sign == IF t # <<>> /\ Head(t) = "-" THEN -1 ELSE 1
      z == DigitPrefix(IF signed THEN Tail(t) ELSE t)
  IN IF z = <<>> THEN NaN ELSE Num(sign * DigitsValue(z, 0))

\* ------------------------------------------------------------ String(number)

\* the decimal digits of a natural number, most significant first
RECURSIVE NatDigits(_)
NatDigits(k) ==
  IF k < 10 THEN <<DigitChar(k)>> ELSE NatDigits(k \div 10) \o <<DigitChar(k % 10)>>

\* mutant of String: next.toFixed(1) in place of String(next)
String_fixed(x) ==
  IF x.nan THEN <<"N", "a", "N">>
  ELSE IF x.n < 0 THEN <<"-">> \o NatDigits(-x.n) \o <<".", "0">>
  ELSE NatDigits(x.n) \o <<".", "0">>

\* String(x): "NaN", or the decimal form with a minus sign when negative
String(x) ==
  IF x.nan THEN <<"N", "a", "N">>
  ELSE IF x.n < 0 THEN <<"-">> \o NatDigits(-x.n)
  ELSE NatDigits(x.n)

\* mutant of PlusOne: the + 1 of line 33 forgotten
PlusOne_none(x) == x

\* x + 1 on numbers: NaN + 1 is NaN
PlusOne(x) == IF x.nan THEN NaN ELSE Num(x.n + 1)

\* ---------------------------------------------------------------- the store

\* params.slug as the router hands it over: missing, empty, or a page name
Undefined == "undefined"
ValidSlugs == {"a", "b"}
SlugInputs == {Undefined, ""} \cup ValidSlugs

\* mutant of kvKey: the slug left out of the key
kvKey_const(slug) == "views:"

kvKey(slug) == "views:" \o slug

Keys == {kvKey(s) : s \in ValidSlugs}

\* what a key may hold when the first request arrives: nothing, counts the
\* endpoint wrote, and values that are not the decimal form of a count
StoredValues ==
  { Null, Str(<<"9">>),
    Str(<<"x">>), Str(<<>>), Str(<<"7", "x">>), Str(<<"-", "1">>) }

\* the stores a behaviour starts from: any of these under the first page's
\* key with nothing under the second's, or a count under the second's only
InitStores ==
  { s \in [Keys -> StoredValues] :
      \/ s[kvKey("b")] = Null
      \/ s[kvKey("a")] = Null /\ s[kvKey("b")] = Str(<<"9">>) }

\* locals?.runtime?.env?.VISIT_COUNTER: the binding, or what is missing
Envs == {"bound", "noBinding", "noRuntime"}

VARIABLES
  env,      \* the deployment's binding state
  kv,       \* VISIT_COUNTER: key -> string | null
  expiring, \* VISIT_COUNTER: the keys stored with an expiration
  kv0,      \* history: the store when the first request arrived
  reqs      \* the requests so far, in arrival order


\* the browser side: the tabs that show a page of the site
VARIABLES
  ls,       \* localStorage of the site's origin: key -> item
  theme,    \* ThemeToggle: each open tab's theme state
  attr,     \* each open tab's data-theme attribute on the document element
  events,   \* each open tab's storage events that are not delivered yet
  visible   \* the cookie banner: each open tab's visible state

\* the contact page: ContactForm and the Toast it mounts
VARIABLES
  action,      \* the action prop
  name,        \* the four fields
  email,
  subject,
  message,
  touched,     \* field -> has been blurred (or a submit was tried)
  status,      \* 'idle' | 'submitting' | 'success' | 'error'
  pending,     \* the submissions that wait for their delay or their fetch
  resets,      \* the pending 3000 ms timers that set status to 'idle'
  calls,       \* history: the number of handleSubmit calls so far
  toasts,      \* Toast: the list shown
  nextId,      \* Toast: the last id given
  dismissals   \* Toast: the ids of the pending duration timers, oldest first

\* the blog page: the post search
VARIABLES
  posts,      \* the posts prop
  query,      \* the text of the search input
  activeTag,  \* the tag filter, '' for none
  clicks,     \* history: the number of clicks on the tag buttons so far
  lastClick   \* history: the tag button clicked last

viewsVars == <<env, kv, expiring, kv0, reqs>>
searchVars == <<posts, query, activeTag, clicks, lastClick>>
themeVars == <<ls, theme, attr, events, visible>>
formVars == <<action, name, email, subject, message, touched, status, pending,
              resets, calls>>
toastVars == <<toasts, nextId, dismissals>>
pageVars == <<themeVars, formVars, toastVars, searchVars>>
vars == <<viewsVars, pageVars>>

\* ------------------------------------------------------------------ requests

\* the indices of the requests still running
InFlight == {i \in 1..Len(reqs) : reqs[i].pc # "done"}

\* the store operations that have failed so far
Faults == Cardinality({i \in 1..Len(reqs) : reqs[i].status = 500})

\* a request as it arrives; conc (history) holds the requests for the same
\* slug that were running when it arrived
NewReq(method, slug) ==
  [ method |-> method, slug |-> slug, pc |-> "start",
    raw |-> Null, next |-> NaN,
    status |-> 0, views |-> NaN,
    gets |-> 0, puts |-> 0,
    conc |-> {i \in InFlight : reqs[i].slug = slug} ]

\* new Response('Bad Request', { status: 400 })
BadRequest(r) == [r EXCEPT !.pc = "done", !.status = 400]

\* Response.json({ views: v })
Json(r, v) == [r EXCEPT !.pc = "done", !.status = 200, !.views = v]

\* an exception leaves the handler: the runtime answers with an error
Thrown(r) == [r EXCEPT !.pc = "done", !.status = 500]

\* mutant of getViews: parseInt(raw, 10) without the ?? '0' default, so that
\* null is parsed as the string "null"
getViews_noDefault(raw) ==
  ParseInt(IF raw.isNull THEN <<"n", "u", "l", "l">> ELSE raw.str)

\* mutant of getViews: raw ?? '1', an absent key counted as one view
getViews_defaultOne(raw) == ParseInt(IF raw.isNull THEN <<"1">> ELSE raw.str)

\* mutant of getViews: a module-level cache, which answers with the count of
\* the latest request that read the store once there is one
getViews_cached(raw) ==
  LET readers == {i \in 1..Len(reqs) :
                    reqs[i].pc = "done" /\ reqs[i].status = 200 /\ reqs[i].gets = 1}
  IN IF readers = {}
       THEN ParseInt(IF raw.isNull THEN <<"0">> ELSE raw.str)
       ELSE reqs[CHOOSE i \in readers : \A j \in readers : j <= i].views

\* getViews, after the store's get has settled with raw
getViews(raw) == ParseInt(IF raw.isNull THEN <<"0">> ELSE raw.str)

\* mutant of Begin: only locals.runtime.env is checked, not its VISIT_COUNTER
Begin_noBindingCheck(method, slug) ==
  LET r == NewReq(method, slug)
  IN IF slug \in {Undefined, ""} THEN BadRequest(r)
     ELSE IF env = "noRuntime" THEN Json(r, Num(0))
     ELSE [r EXCEPT !.pc = "getViews"]

\* mutant of Begin: the binding check placed before the slug check
Begin_bindingFirst(method, slug) ==
  LET r == NewReq(method, slug)
  IN IF env # "bound" THEN Json(r, Num(0))
     ELSE IF slug \in {Undefined, ""} THEN BadRequest(r)
     ELSE [r EXCEPT !.pc = "getViews"]

\* the synchronous prefix shared by GET and POST: the slug check, the binding
\* check, and the call of getViews up to its await
Begin(method, slug) ==
  LET r == NewReq(method, slug)
  IN IF slug \in {Undefined, ""} THEN BadRequest(r)
     ELSE IF env # "bound" THEN Json(r, Num(0))
     ELSE [r EXCEPT !.pc = "getViews"]

\* VISIT_COUNTER.put(key, value, options?): the value replaces what the key
\* held, expiration included; ttl says whether options.expirationTtl is given
Put(key, value, ttl) ==
  /\ kv' = [kv EXCEPT ![key] = Str(value)]
  /\ expiring' = IF ttl THEN expiring \cup {key} ELSE expiring \ {key}

\* a localStorage item: getItem gives null for a key that is not stored
NoItem == [some |-> FALSE, val |-> ""]
Item(v) == [some |-> TRUE, val |-> v]
StorageKeys == {"theme", "cookie-consent"}

\* no tab shows a page of the site
NoTabs ==
  /\ ls = [k \in StorageKeys |-> NoItem]
  /\ theme = <<>>
  /\ attr = <<>>
  /\ events = <<>>
  /\ visible = <<>>

Fields == {"name", "email", "subject", "message"}

\* ContactForm and Toast as constructed, with the action prop given
Mounted(a) ==
  /\ action = a
  /\ name = <<>> /\ email = <<>> /\ subject = <<>> /\ message = <<>>
  /\ touched = [f \in Fields |-> FALSE]
  /\ status = "idle"
  /\ pending = {}
  /\ resets = 0
  /\ calls = 0
  /\ toasts = <<>>
  /\ nextId = 0
  /\ dismissals = <<>>

\* nobody uses the site's pages: no tab is open, the form is as constructed
\* the post search with no posts, as constructed
NoSearch ==
  /\ posts = <<>>
  /\ query = <<>>
  /\ activeTag = ""
  /\ clicks = 0
  /\ lastClick = ""

NoPage == NoTabs /\ Mounted("") /\ NoSearch

Init ==
  /\ env \in Envs
  /\ kv \in InitStores
  /\ expiring = {}
  /\ kv0 = kv
  /\ reqs = <<>>
  /\ NoPage

GETBegin(slug) ==
  /\ Len(reqs) < MaxReq
  /\ reqs' = Append(reqs, Begin("GET", slug))
  /\ UNCHANGED <<env, kv, expiring, kv0>>
  /\ UNCHANGED pageVars

POSTBegin(slug) ==
  /\ Len(reqs) < MaxReq
  /\ reqs' = Append(reqs, Begin("POST", slug))
  /\ UNCHANGED <<env, kv, expiring, kv0>>
  /\ UNCHANGED pageVars

\* mutant of GETResume: GET writes the count it parsed back to the store
GETResume_writeBack(i) ==
  /\ reqs[i].method = "GET" /\ reqs[i].pc = "getViews"
  /\ LET raw == kv[kvKey(reqs[i].slug)]
         r == [reqs[i] EXCEPT !.raw = raw, !.gets = @ + 1]
     IN /\ reqs' = [reqs EXCEPT ![i] = Json(r, getViews(raw))]
        /\ Put(kvKey(reqs[i].slug), String(getViews(raw)), FALSE)
  /\ UNCHANGED <<env, kv0>>
  /\ UNCHANGED pageVars

\* GET resumes with the store's answer and responds
GETResume(i) ==
  /\ reqs[i].method = "GET" /\ reqs[i].pc = "getViews"
  /\ LET raw == kv[kvKey(reqs[i].slug)]
         r == [reqs[i] EXCEPT !.raw = raw, !.gets = @ + 1]
     IN reqs' = [reqs EXCEPT ![i] = Json(r, getViews(raw))]
  /\ UNCHANGED <<env, kv, expiring, kv0>>
  /\ UNCHANGED pageVars

\* POST resumes with the store's answer, computes next and issues the put
POSTResume(i) ==
  /\ reqs[i].method = "POST" /\ reqs[i].pc = "getViews"
  /\ LET raw == kv[kvKey(reqs[i].slug)]
     IN reqs' = [reqs EXCEPT ![i] =
          [@ EXCEPT !.raw = raw, !.gets = @ + 1,
                    !.next = PlusOne(getViews(raw)), !.pc = "put"]]
  /\ UNCHANGED <<env, kv, expiring, kv0>>
  /\ UNCHANGED pageVars

\* mutant of POSTPut: an atomic increment at the store, which adds 1 to the
\* value it holds at that moment and answers with the result
POSTPut_atomic(i) ==
  /\ reqs[i].method = "POST" /\ reqs[i].pc = "put"
  /\ LET now == PlusOne(getViews(kv[kvKey(reqs[i].slug)]))
     IN /\ Put(kvKey(reqs[i].slug), String(now), FALSE)
        /\ reqs' = [reqs EXCEPT ![i] = Json([@ EXCEPT !.puts = @ + 1], now)]
  /\ UNCHANGED <<env, kv0>>
  /\ UNCHANGED pageVars

\* mutant of POSTPut: the put is given { expirationTtl }
POSTPut_ttl(i) ==
  /\ reqs[i].method = "POST" /\ reqs[i].pc = "put"
  /\ Put(kvKey(reqs[i].slug), String(reqs[i].next), TRUE)
  /\ reqs' = [reqs EXCEPT ![i] = Json([@ EXCEPT !.puts = @ + 1], reqs[i].next)]
  /\ UNCHANGED <<env, kv0>>
  /\ UNCHANGED pageVars

\* the put settles: the value is stored, with no options, and POST responds
\* with next
POSTPut(i) ==
  /\ reqs[i].method = "POST" /\ reqs[i].pc = "put"
  /\ Put(kvKey(reqs[i].slug), String(reqs[i].next), FALSE)
  /\ reqs' = [reqs EXCEPT ![i] = Json([@ EXCEPT !.puts = @ + 1], reqs[i].next)]
  /\ UNCHANGED <<env, kv0>>
  /\ UNCHANGED pageVars

\* mutant of GetFail: the rejected get is issued again
GetFail_retry(i) ==
  /\ reqs[i].pc = "getViews"
  /\ Faults < MaxFaults
  /\ reqs' = [reqs EXCEPT ![i].gets = @ + 1]
  /\ UNCHANGED <<env, kv, expiring, kv0>>
  /\ UNCHANGED pageVars

\* the store's get rejects: getViews has no catch, nor has its caller, so
\* the exception leaves the handler (GET line 22, POST line 33)
GetFail(i) ==
  /\ reqs[i].pc = "getViews"
  /\ Faults < MaxFaults
  /\ reqs' = [reqs EXCEPT ![i] = Thrown([@ EXCEPT !.gets = @ + 1])]
  /\ UNCHANGED <<env, kv, expiring, kv0>>
  /\ UNCHANGED pageVars

\* the store's put rejects (POST line 34): the exception leaves the handler;
\* the store may or may not have taken the value before failing
PutFail(i) ==
  /\ reqs[i].method = "POST" /\ reqs[i].pc = "put"
  /\ Faults < MaxFaults
  /\ \/ UNCHANGED <<kv, expiring>>
     \/ Put(kvKey(reqs[i].slug), String(reqs[i].next), FALSE)
  /\ reqs' = [reqs EXCEPT ![i] = Thrown([@ EXCEPT !.puts = @ + 1])]
  /\ UNCHANGED <<env, kv0>>
  /\ UNCHANGED pageVars

\* the handlers over a store whose operations succeed
Next ==
  \/ \E s \in SlugInputs : GETBegin(s)
  \/ \E s \in SlugInputs : POSTBegin(s)
  \/ \E i \in 1..Len(reqs) : GETResume(i)
  \/ \E i \in 1..Len(reqs) : POSTResume(i)
  \/ \E i \in 1..Len(reqs) : POSTPut(i)

Spec == Init /\ [][Next]_vars

\* the handlers over a store whose get and put may reject
NextFault ==
  \/ Next
  \/ \E i \in 1..Len(reqs) : GetFail(i)
  \/ \E i \in 1..Len(reqs) : PutFail(i)

SpecFault == Init /\ [][NextFault]_vars

\* a key stored with an expiration (by a put that gave expirationTtl) is
\* removed by the store when the time has passed
Expire(k) ==
  /\ k \in expiring
  /\ kv' = [kv EXCEPT ![k] = Null]
  /\ expiring' = expiring \ {k}
  /\ UNCHANGED <<env, kv0, reqs>>
  /\ UNCHANGED pageVars

\* the store may start with keys that carry an expiration
InitTtl ==
  /\ env \in Envs
  /\ kv \in InitStores
  /\ expiring \in SUBSET {k \in Keys : ~kv[k].isNull}
  /\ kv0 = kv
  /\ reqs = <<>>
  /\ NoPage

\* the handlers over a store that expires the keys stored with an expiration
NextTtl ==
  \/ Next
  \/ \E k \in Keys : Expire(k)

SpecTtl == InitTtl /\ [][NextTtl]_vars

\* ------------------------------------------------- vocabulary of the claims

ReqIds == 1..Len(reqs)

IsDone(i) == reqs[i].pc = "done"

\* the POST requests for slug s, and the GET requests for it
POSTsOn(s) == {i \in ReqIds : reqs[i].method = "POST" /\ reqs[i].slug = s}
GETsOn(s) == {i \in ReqIds : reqs[i].method = "GET" /\ reqs[i].slug = s}

\* requests i and j ran at the same time: one was running when the other arrived
Overlap(i, j) == i \in reqs[j].conc \/ j \in reqs[i].conc

\* no two POSTs for s overlapped
Sequential(s) == \A i, j \in POSTsOn(s) : ~Overlap(i, j)

\* request j ran with no POST for its slug running beside it
Quiet(j) == \A i \in POSTsOn(reqs[j].slug) : i # j => ~Overlap(i, j)

\* the POSTs for s that arrived before request j
Before(j, s) == {i \in POSTsOn(s) : i < j}

\* the decimal form of a small count, written out
Decimal(n) ==
  CASE n = 0 -> <<"0">> [] n = 1 -> <<"1">> [] n = 2 -> <<"2">>
    [] n = 3 -> <<"3">> [] n = 4 -> <<"4">> [] n = 5 -> <<"5">>
    [] n = 6 -> <<"6">> [] n = 7 -> <<"7">> [] n = 8 -> <<"8">>
    [] n = 9 -> <<"9">> [] n = 10 -> <<"1", "0">> [] n = 11 -> <<"1", "1">>
    [] n = 12 -> <<"1", "2">> [] n = 13 -> <<"1", "3">>
    [] n = 14 -> <<"1", "4">> [] n = 15 -> <<"1", "5">>

\* s is the decimal form of a non-negative integer: digits only, at least
\* one, and no leading zero unless it is "0"
IsDecimalNat(s) ==
  /\ Len(s) >= 1
  /\ \A k \in 1..Len(s) : s[k] \in DigitChars
  /\ Len(s) > 1 => s[1] # "0"

\* s is a base-10 integer: an optional minus sign, then digits only
IsBase10Integer(s) ==
  LET d == IF s # <<>> /\ Head(s) = "-" THEN Tail(s) ELSE s
  IN Len(d) >= 1 /\ \A k \in 1..Len(d) : d[k] \in DigitChars

\* -------------------------------------------------------------------- C1

\* C1: starting from an absent key, after n POSTs for a slug run one after
\* another (none overlapping) the store holds the decimal
\* string of n under the slug's key (no key when n = 0), and a GET that runs
\* with no POST beside it returns 200 with views = the number of POSTs before it.
C1_SequentialCount ==
  \A s \in ValidSlugs :
    (env = "bound" /\ kv0[kvKey(s)] = Null /\ Sequential(s)) =>
      /\ (\A i \in POSTsOn(s) : IsDone(i)) =>
           kv[kvKey(s)] = IF POSTsOn(s) = {} THEN Null
                          ELSE Str(Decimal(Cardinality(POSTsOn(s))))
      /\ \A j \in GETsOn(s) :
           (IsDone(j) /\ Quiet(j)) =>
              /\ reqs[j].status = 200
              /\ reqs[j].views = Num(Cardinality(Before(j, s)))

\* two sequential POSTs for a slug whose key was absent, then a GET that
\* returned 2
C1_Witness ==
  \E s \in ValidSlugs :
    /\ env = "bound" /\ kv0[kvKey(s)] = Null /\ Sequential(s)
    /\ Cardinality(POSTsOn(s)) = 2
    /\ kv[kvKey(s)] = Str(<<"2">>)
    /\ \E j \in GETsOn(s) :
         /\ IsDone(j) /\ Quiet(j) /\ Cardinality(Before(j, s)) = 2
         /\ reqs[j].views = Num(2)

\* -------------------------------------------------------------------- C2

\* C2: two POSTs for one slug that overlap and read the same stored value
\* compute the same next value and return the same views; when they are the
\* only POSTs for the slug and the key was absent (or held "9"), the store
\* ends 1 higher than before, not 2 higher: one update is lost.
C2_LostUpdate ==
  \A s \in ValidSlugs : \A i, j \in POSTsOn(s) :
    ( /\ i # j /\ Overlap(i, j)
      /\ reqs[i].status = 200 /\ reqs[j].status = 200
      /\ reqs[i].raw = reqs[j].raw ) =>
        /\ reqs[i].views = reqs[j].views
        /\ POSTsOn(s) = {i, j} =>
             /\ kv0[kvKey(s)] = Null => kv[kvKey(s)] = Str(<<"1">>)
             /\ kv0[kvKey(s)] = Str(<<"9">>) => kv[kvKey(s)] = Str(<<"1", "0">>)

\* both POSTs read the absent key, both answered views 1, the store holds "1"
C2_Witness ==
  \E s \in ValidSlugs : \E i, j \in POSTsOn(s) :
    /\ i # j /\ Overlap(i, j) /\ POSTsOn(s) = {i, j}
    /\ reqs[i].status = 200 /\ reqs[j].status = 200
    /\ reqs[i].raw = Null /\ reqs[j].raw = Null
    /\ reqs[i].views = Num(1) /\ reqs[j].views = Num(1)
    /\ kv0[kvKey(s)] = Null /\ kv[kvKey(s)] = Str(<<"1">>)

\* -------------------------------------------------------------------- C3

\* C3: starting from an absent key, in every interleaving, every views
\* value returned for the slug is a number between 0 and the number of POSTs
\* for it that have arrived, and once all k >= 1 POSTs have completed the
\* stored value is the decimal string of a count between 1 and k.
C3_UnderCount ==
  \A s \in ValidSlugs :
    (env = "bound" /\ kv0[kvKey(s)] = Null) =>
      LET k == Cardinality(POSTsOn(s))
      IN /\ \A i \in POSTsOn(s) \cup GETsOn(s) :
              IsDone(i) =>
                /\ reqs[i].status = 200
                /\ ~reqs[i].views.nan
                /\ reqs[i].views.n \in 0..k
         /\ (k >= 1 /\ \A i \in POSTsOn(s) : IsDone(i)) =>
              \E c \in 1..k : kv[kvKey(s)] = Str(Decimal(c))

\* three POSTs, two of them colliding: the store holds "2"
C3_Witness ==
  \E s \in ValidSlugs :
    /\ env = "bound" /\ kv0[kvKey(s)] = Null
    /\ Cardinality(POSTsOn(s)) = 3
    /\ \A i \in POSTsOn(s) : IsDone(i)
    /\ ~Sequential(s)
    /\ kv[kvKey(s)] = Str(<<"2">>)

\* -------------------------------------------------------------------- C4

\* C4: with a configured store and no overlapping POSTs,
\* two POSTs for a slug in sequence return numbers that differ by exactly 1,
\* and a GET right after a POST returns the views value that POST returned.
C4_SequentialPost ==
  \A s \in ValidSlugs :
    (env = "bound" /\ Sequential(s)) =>
      /\ \A i, j \in POSTsOn(s) :
           ( /\ i < j /\ IsDone(i) /\ IsDone(j)
             /\ ~\E m \in POSTsOn(s) : i < m /\ m < j ) =>
               /\ ~reqs[i].views.nan /\ ~reqs[j].views.nan
               /\ reqs[j].views.n = reqs[i].views.n + 1
      /\ \A j \in GETsOn(s) :
           (IsDone(j) /\ Quiet(j) /\ Before(j, s) # {}) =>
              \E i \in Before(j, s) :
                /\ \A m \in Before(j, s) : m <= i
                /\ reqs[j].views = reqs[i].views

\* -------------------------------------------------------------------- C5

\* C5: with a configured store, a GET for a page name whose key is absent
\* when the store is read returns status 200 with views 0.
C5_AbsentIsZero ==
  \A s \in ValidSlugs : \A j \in GETsOn(s) :
    (env = "bound" /\ IsDone(j) /\ reqs[j].raw = Null) =>
        /\ reqs[j].status = 200
        /\ reqs[j].views = Num(0)

\* a GET read an absent key from the configured store and answered
C5_Witness ==
  \E s \in ValidSlugs : \E j \in GETsOn(s) :
    /\ env = "bound" /\ IsDone(j) /\ reqs[j].gets = 1
    /\ kv[kvKey(s)] = Null /\ reqs[j].raw = Null
    /\ reqs[j].status = 200 /\ reqs[j].views = Num(0)

\* -------------------------------------------------------------------- C6

\* C6: when the binding is not configured (no runtime env, or no
\* VISIT_COUNTER in it), every GET and POST for a page name returns 200 with
\* views 0, issues no store get and no store put, and the store is unchanged.
C6_Unconfigured ==
  env # "bound" =>
    /\ kv = kv0
    /\ \A i \in ReqIds :
         reqs[i].slug \in ValidSlugs =>
           /\ IsDone(i)
           /\ reqs[i].status = 200 /\ reqs[i].views = Num(0)
           /\ reqs[i].gets = 0 /\ reqs[i].puts = 0

\* a GET and a POST for a page name were answered without a binding
C6_Witness ==
  /\ env = "noBinding"
  /\ \E i, j \in ReqIds :
       /\ reqs[i].method = "GET" /\ reqs[i].slug \in ValidSlugs
       /\ reqs[j].method = "POST" /\ reqs[j].slug \in ValidSlugs
       /\ reqs[i].status = 200 /\ reqs[j].status = 200
       /\ reqs[j].views = Num(0)

\* -------------------------------------------------------------------- C7

\* C7: a GET or POST whose slug is missing or empty is answered at once with
\* status 400, issues no store get and no store put, and leaves the store
\* unchanged, whether or not the store is configured.
C7_BadSlug ==
  [][ (Len(reqs') = Len(reqs) + 1 /\ reqs'[Len(reqs')].slug \in {Undefined, ""}) =>
        LET r == reqs'[Len(reqs')]
        IN /\ r.pc = "done" /\ r.status = 400
           /\ r.gets = 0 /\ r.puts = 0
           /\ kv' = kv ]_vars

\* requests with a missing and with an empty slug were rejected, with the
\* store configured
C7_Witness ==
  /\ env = "bound"
  /\ \E i, j \in ReqIds :
       /\ reqs[i].slug = Undefined /\ reqs[i].method = "GET"
       /\ reqs[j].slug = "" /\ reqs[j].method = "POST"
       /\ reqs[i].status = 400 /\ reqs[j].status = 400

\* -------------------------------------------------------------------- C8

\* C8: when the value read from the store is a string that is not a base-10
\* integer, GET returns views 0, and POST computes 1, writes "1" and returns
\* views 1.
C8_MalformedIsZero ==
  \A i \in ReqIds :
    ( /\ IsDone(i) /\ reqs[i].status = 200 /\ reqs[i].gets = 1
      /\ ~reqs[i].raw.isNull /\ ~IsBase10Integer(reqs[i].raw.str) ) =>
        IF reqs[i].method = "GET"
          THEN reqs[i].views = Num(0)
          ELSE reqs[i].next = Num(1) /\ reqs[i].views = Num(1)

\* -------------------------------------------------------------------- C9

\* C9: for a page name and a configured store, a failing store get or put is
\* resolved locally: every completed request is answered with status 200, and
\* only a missing or empty slug gives another status.
C9_FailuresResolved ==
  \A i \in ReqIds :
    IsDone(i) =>
      /\ reqs[i].slug \in ValidSlugs => reqs[i].status = 200
      /\ reqs[i].status # 200 => reqs[i].slug \in {Undefined, ""}

\* -------------------------------------------------------------------- C10

\* every key started absent or holding the decimal form of a non-negative
\* integer
CanonicalStart ==
  \A k \in Keys : kv0[k].isNull \/ IsDecimalNat(kv0[k].str)

GETStep ==
  \/ /\ Len(reqs') = Len(reqs) + 1
     /\ reqs'[Len(reqs')].method = "GET"
  \/ /\ Len(reqs') = Len(reqs)
     /\ \E i \in ReqIds : reqs[i].method = "GET" /\ reqs'[i] # reqs[i]

\* a POST for s has failed at the store
FailedPost(s) == \E i \in POSTsOn(s) : reqs[i].status = 500

\* what POST j read is what the last POST before it wrote (the key's first
\* value when there is none), whatever GETs ran in between
ReadsLastWrite(j, s) ==
  IF Before(j, s) = {}
    THEN reqs[j].raw = kv0[kvKey(s)]
    ELSE \E i \in Before(j, s) :
           /\ \A m \in Before(j, s) : m <= i
           /\ reqs[j].raw = Str(String(reqs[i].views))

\* C11: no step of a GET request, for any slug and any store, changes the
\* store; so when the POSTs for a slug run one after another, each reads
\* what the previous one wrote, however many GETs ran in between.
C11_GetReadOnly ==
  /\ [][GETStep => (kv' = kv /\ expiring' = expiring)]_vars
  /\ [](\A s \in ValidSlugs : \A j \in POSTsOn(s) :
          ( /\ Sequential(s) /\ ~FailedPost(s) /\ env = "bound"
            /\ reqs[j].pc = "put" \/ reqs[j].status = 200 ) =>
               ReadsLastWrite(j, s))

\* POST, GET, POST for one slug in sequence: the second POST read the "1" the
\* first wrote and returned 2
C11_Witness ==
  \E s \in ValidSlugs : \E i, j \in POSTsOn(s) : \E g \in GETsOn(s) :
    /\ i < g /\ g < j /\ Quiet(g) /\ Quiet(j)
    /\ reqs[g].status = 200 /\ reqs[g].views = Num(1)
    /\ reqs[j].raw = Str(<<"1">>)
    /\ reqs[j].status = 200 /\ reqs[j].views = Num(2)

\* -------------------------------------------------------------------- C12

\* a step taken by a request for slug a: one arrives, or one's record changes
StepOf(a) ==
  \/ /\ Len(reqs') = Len(reqs) + 1
     /\ reqs'[Len(reqs')].slug = a
  \/ /\ Len(reqs') = Len(reqs)
     /\ \E i \in ReqIds : reqs[i].slug = a /\ reqs'[i] # reqs[i]

\* request i read the store in this step, and the get succeeded
ReadStep(i) ==
  /\ reqs[i].pc = "getViews"
  /\ reqs'[i].pc # "getViews"
  /\ reqs'[i].status # 500

\* C12: a request for slug A writes only the key "views:" + A and reads only
\* that key: every other key keeps its value in each of its steps; while no
\* POST for B has arrived, B's key holds its first value and a GET for B
\* returns the count of that value, whatever requests ran for other slugs.
C12_Isolated ==
  /\ [][\A a \in ValidSlugs :
          /\ StepOf(a) =>
               \A k \in DOMAIN kv : k # "views:" \o a => kv'[k] = kv[k]
          /\ \A i \in ReqIds :
               (reqs[i].slug = a /\ ReadStep(i)) =>
                  /\ "views:" \o a \in DOMAIN kv
                  /\ reqs'[i].raw = kv["views:" \o a] ]_vars
  /\ [](\A b \in ValidSlugs :
          POSTsOn(b) = {} =>
            /\ "views:" \o b \in DOMAIN kv
            /\ kv["views:" \o b] = kv0["views:" \o b]
            /\ \A j \in GETsOn(b) :
                 (env = "bound" /\ reqs[j].status = 200) =>
                    /\ kv0["views:" \o b] = Null => reqs[j].views = Num(0)
                    /\ kv0["views:" \o b] = Str(<<"9">>) => reqs[j].views = Num(9))

\* a POST for "a" stored "1"; the key of "b" still holds "9" and a later GET
\* for "b" returned 9
C12_Witness ==
  /\ kv0 = ("views:a" :> Null) @@ ("views:b" :> Str(<<"9">>))
  /\ kv = ("views:a" :> Str(<<"1">>)) @@ ("views:b" :> Str(<<"9">>))
  /\ \E i \in POSTsOn("a") : \E j \in GETsOn("b") :
       /\ i < j /\ reqs[i].status = 200
       /\ reqs[j].status = 200 /\ reqs[j].views = Num(9)

\* -------------------------------------------------------------------- C13

\* C13: once a POST has written a slug's key, the key is present and carries
\* no expiration in every later state (the put gives no expiration option),
\* and no step of a request removes a key that is present.
C13_NeverDeleted ==
  /\ [](\A s \in ValidSlugs :
          (\E i \in POSTsOn(s) : reqs[i].status = 200 /\ reqs[i].puts = 1) =>
             /\ ~kv[kvKey(s)].isNull
             /\ kvKey(s) \notin expiring)
  /\ [][Len(reqs') > Len(reqs) \/ reqs' # reqs =>
          \A k \in Keys : ~kv[k].isNull => ~kv'[k].isNull]_vars

\* a POST read "9" and stored "10" under a key that carries no expiration,
\* and a later GET returned 10
C13_Witness ==
  \E s \in ValidSlugs :
    /\ kv0[kvKey(s)] = Str(<<"9">>)
    /\ kv[kvKey(s)] = Str(<<"1", "0">>)
    /\ kvKey(s) \notin expiring
    /\ \E i \in POSTsOn(s) : reqs[i].status = 200 /\ reqs[i].raw = Str(<<"9">>)
    /\ \E g \in GETsOn(s) : reqs[g].status = 200 /\ reqs[g].views = Num(10)

\* -------------------------------------------------------------------- C14

\* C14: no store operation is retried: every request issues at most one get
\* and at most one put, a GET issues no put, and a put is issued only after
\* the one get, also when a get or a put fails.
C14_NoRetry ==
  \A i \in ReqIds :
    /\ reqs[i].gets <= 1
    /\ reqs[i].puts <= 1
    /\ reqs[i].method = "GET" => reqs[i].puts = 0
    /\ reqs[i].puts = 1 => reqs[i].gets = 1
    /\ reqs[i].status = 500 => reqs[i].pc = "done"

\* a request ended on a failed store operation after one get
C14_Witness ==
  \E i \in ReqIds :
    /\ reqs[i].status = 500 /\ reqs[i].pc = "done"
    /\ reqs[i].gets = 1 /\ reqs[i].puts = 0

\* -------------------------------------------------------------------- C15

\* a POST answered in this step
POSTAnswered(i) ==
  /\ reqs[i].method = "POST" /\ reqs[i].pc = "put"
  /\ reqs'[i].pc = "done" /\ reqs'[i].status = 200

\* C15: two requests with the same method and slug that ran with no POST for
\* the slug beside them and saw the same store contents under the same
\* binding were answered with the same status and views and computed the same
\* value to store; the store a POST leaves is the store it found with its key
\* set to the decimal string of the views it returns.
C15_Deterministic ==
  /\ [](\A i, j \in ReqIds :
          ( /\ IsDone(i) /\ IsDone(j)
            /\ reqs[i].method = reqs[j].method /\ reqs[i].slug = reqs[j].slug
            /\ Quiet(i) /\ Quiet(j)
            /\ reqs[i].raw = reqs[j].raw ) =>
               /\ reqs[i].status = reqs[j].status
               /\ reqs[i].views = reqs[j].views
               /\ reqs[i].next = reqs[j].next)
  /\ [][\A i \in ReqIds :
          POSTAnswered(i) =>
            kv' = [kv EXCEPT ![kvKey(reqs[i].slug)] = Str(String(reqs'[i].views))]]_vars

\* two GETs for one slug read the same value and gave the same answer, with
\* a POST for the other slug answered in between
C15_Witness ==
  \E s, t \in ValidSlugs : \E i, j \in GETsOn(s) : \E m \in POSTsOn(t) :
    /\ s # t /\ i < m /\ m < j
    /\ reqs[m].status = 200 /\ reqs[m].views = Num(1)
    /\ reqs[i].status = 200 /\ reqs[j].status = 200
    /\ reqs[i].raw = Str(<<"9">>) /\ reqs[j].raw = Str(<<"9">>)
    /\ reqs[i].views = Num(9) /\ reqs[j].views = Num(9)

\* ------------------------------------------------- the theme toggle, in tabs

\* the most storage events a tab has waiting
MaxPending == 2

Tabs == {"A", "B"}

\* no request reaches the endpoint
NoRequests ==
  /\ env = "bound"
  /\ kv = [k \in Keys |-> Null]
  /\ expiring = {}
  /\ kv0 = kv
  /\ reqs = <<>>

\* the tabs after mount. The inline script has set data-theme from the stored
\* theme (none when nothing is stored); the effect reads the attribute into
\* theme, and the cookie banner shows when no consent is stored
InitTheme ==
  /\ ls \in [StorageKeys -> {NoItem, Item("light"), Item("dark"), Item("declined")}]
  /\ ls["theme"] \in {NoItem, Item("light"), Item("dark")}
  /\ ls["cookie-consent"] \in {NoItem, Item("declined")}
  /\ attr = [t \in Tabs |-> ls["theme"]]
  /\ theme = [t \in Tabs |-> IF attr[t].some THEN attr[t].val ELSE "light"]
  /\ events = [t \in Tabs |-> <<>>]
  /\ visible = [t \in Tabs |-> ~ls["cookie-consent"].some \/ ls["cookie-consent"].val = ""]
  /\ NoRequests
  /\ Mounted("")
  /\ NoSearch

\* localStorage.setItem(key, value) in tab t: the item is stored, and when the
\* value changes a storage event is queued for every other tab
setItem(t, key, value) ==
  /\ \A u \in DOMAIN events : u # t => Len(events[u]) < MaxPending
  /\ ls' = [ls EXCEPT ![key] = Item(value)]
  /\ events' = IF ls[key] = Item(value)
                 THEN events
                 ELSE [u \in DOMAIN events |->
                         IF u = t THEN events[u]
                         ELSE Append(events[u], [key |-> key, newValue |-> Item(value)])]

\* toggle() in tab t
toggle(t) ==
  LET next == IF theme[t] = "dark" THEN "light" ELSE "dark"
  IN /\ theme' = [theme EXCEPT ![t] = next]
     /\ attr' = [attr EXCEPT ![t] = Item(next)]
     /\ setItem(t, "theme", next)
     /\ UNCHANGED <<visible, viewsVars, formVars, toastVars, searchVars>>

\* onStorage(e) in tab t, for the oldest event that waits there
onStorage(t) ==
  /\ events[t] # <<>>
  /\ LET e == Head(events[t])
     IN IF e.key = "theme" /\ e.newValue.some /\ e.newValue.val # ""
          THEN /\ theme' = [theme EXCEPT ![t] = e.newValue.val]
               /\ attr' = [attr EXCEPT ![t] = e.newValue]
          ELSE UNCHANGED <<theme, attr>>
  /\ events' = [events EXCEPT ![t] = Tail(@)]
  /\ UNCHANGED <<ls, visible, viewsVars, formVars, toastVars, searchVars>>

\* the cookie banner's accept() in tab t
accept(t) ==
  /\ visible[t]
  /\ setItem(t, "cookie-consent", "accepted")
  /\ visible' = [visible EXCEPT ![t] = FALSE]
  /\ UNCHANGED <<theme, attr, viewsVars, formVars, toastVars, searchVars>>

\* the cookie banner's decline() in tab t
decline(t) ==
  /\ visible[t]
  /\ setItem(t, "cookie-consent", "declined")
  /\ visible' = [visible EXCEPT ![t] = FALSE]
  /\ UNCHANGED <<theme, attr, viewsVars, formVars, toastVars, searchVars>>

NextTheme ==
  \/ \E t \in Tabs : toggle(t)
  \/ \E t \in Tabs : onStorage(t)
  \/ \E t \in Tabs : accept(t)
  \/ \E t \in Tabs : decline(t)

SpecTheme == InitTheme /\ [][NextTheme]_vars

\* -------------------------------------------------------------------- C16

\* C16: whenever a theme is stored and no storage event waits in any tab,
\* each tab's theme state and data-theme attribute equal the stored theme.
C16_ThemeInSync ==
  ((\A t \in Tabs : events[t] = <<>>) /\ ls["theme"].some) =>
     \A t \in Tabs : theme[t] = ls["theme"].val /\ attr[t] = ls["theme"]

\* --------------------------------------------- the contact form and its toasts

\* the most handleSubmit calls
MaxSubmits == 2

\* String.prototype.trim
TrimEnd(s) ==
  LET keep == {i \in 1..Len(s) : s[i] \notin WhiteSpace}
  IN IF keep = {} THEN <<>>
     ELSE SubSeq(s, 1, CHOOSE i \in keep : \A j \in keep : j <= i)
Trim(s) == TrimEnd(TrimStart(s))

\* [^\s@]+ matches all of s[a..b]
Plain(s, a, b) ==
  /\ a <= b
  /\ \A k \in a..b : s[k] \notin WhiteSpace /\ s[k] # "@"

\* /^[^\s@]+@[^\s@]+\.[^\s@]+$/.test(s)
EmailPattern(s) ==
  \E i, j \in 1..Len(s) :
    /\ s[i] = "@" /\ s[j] = "."
    /\ Plain(s, 1, i - 1)
    /\ Plain(s, i + 1, j - 1)
    /\ Plain(s, j + 1, Len(s))

\* mutant of isValid: the fields are measured without trim
isValid_noTrim ==
  /\ Len(name) >= 2
  /\ EmailPattern(email)
  /\ Len(subject) >= 3
  /\ Len(message) >= 10

isValid ==
  /\ Len(Trim(name)) >= 2
  /\ EmailPattern(email)
  /\ Len(Trim(subject)) >= 3
  /\ Len(Trim(message)) >= 10

\* what the user types into each field
Typed ==
  [ name    |-> {<<>>, <<" ", "A", " ">>, <<"A", "l">>},
    email   |-> {<<>>, <<"a", "@", "b">>, <<"a", "@", "b", ".", "c">>},
    subject |-> {<<>>, <<"H", "e", "y">>},
    message |-> {<<>>, <<"H", "e", "l", "l", "o", " ", "y", "o", "u", "!">>} ]

\* the action prop: none, or a form endpoint
Actions == {"", "https://formspree.io/f/x"}

\* how a fetch ends: an OK response, a response that is not OK, a rejection
Outcomes == {"ok", "notOk", "rejected"}

SuccessMessage == "Message sent! I'll get back to you soon."
NoActionMessage == "No action URL configured. Set the action prop to your form endpoint."
NotOkMessage == "Submission failed (500)"
RejectedMessage == "Failed to fetch"

\* mutant of dismiss: the oldest toast is removed, whatever the id
dismiss_oldest(id) == toasts' = IF toasts = <<>> THEN toasts ELSE Tail(toasts)

\* Toast.dismiss(id)
dismiss(id) == toasts' = SelectSeq(toasts, LAMBDA t : t.id # id)

\* mutant of addToast: the id is taken from the length of the list
addToast_lengthId(m, type) ==
  /\ nextId' = Len(toasts) + 1
  /\ toasts' = Append(toasts, [id |-> Len(toasts) + 1, message |-> m, type |-> type])
  /\ dismissals' = Append(dismissals, Len(toasts) + 1)

\* Toast.addToast(message, type), with the default duration
addToast(m, type) ==
  /\ nextId' = nextId + 1
  /\ toasts' = Append(toasts, [id |-> nextId + 1, message |-> m, type |-> type])
  /\ dismissals' = Append(dismissals, nextId + 1)

InitForm ==
  /\ \E a \in Actions : Mounted(a)
  /\ NoRequests
  /\ NoTabs
  /\ NoSearch

\* bind:value: the user edits a field
input(f, v) ==
  /\ name' = IF f = "name" THEN v ELSE name
  /\ email' = IF f = "email" THEN v ELSE email
  /\ subject' = IF f = "subject" THEN v ELSE subject
  /\ message' = IF f = "message" THEN v ELSE message
  /\ UNCHANGED <<action, touched, status, pending, resets, calls>>
  /\ UNCHANGED <<toastVars, viewsVars, themeVars, searchVars>>

\* touch(field), on blur
touch(f) ==
  /\ touched' = [touched EXCEPT ![f] = TRUE]
  /\ UNCHANGED <<action, name, email, subject, message, status, pending, resets, calls>>
  /\ UNCHANGED <<toastVars, viewsVars, themeVars, searchVars>>

\* handleSubmit up to its first await; the submit button is disabled while
\* status is 'submitting'. The request takes the answer it will get with it
handleSubmit ==
  /\ status # "submitting"
  /\ calls < MaxSubmits
  /\ calls' = calls + 1
  /\ touched' = [f \in Fields |-> TRUE]
  /\ IF ~isValid
       THEN UNCHANGED <<status, pending>>
       ELSE /\ status' = "submitting"
            /\ \E o \in Outcomes :
                 pending' = pending \cup
                   {[id |-> calls + 1,
                     kind |-> IF action = "" THEN "delay" ELSE "fetch",
                     body |-> <<name, email, subject, message>>,
                     outcome |-> IF action = "" THEN "none" ELSE o]}
  /\ UNCHANGED <<action, name, email, subject, message, resets>>
  /\ UNCHANGED <<toastVars, viewsVars, themeVars, searchVars>>

\* the catch and finally blocks: status 'error', an error toast, the timer
Caught(m) ==
  /\ status' = "error"
  /\ addToast(m, "error")
  /\ resets' = resets + 1
  /\ UNCHANGED <<action, name, email, subject, message, touched, calls>>

\* the 800 ms delay of a submission without action ends: the throw of line 56
delayEnd(p) ==
  /\ p \in pending /\ p.kind = "delay"
  /\ pending' = pending \ {p}
  /\ Caught(NoActionMessage)
  /\ UNCHANGED <<viewsVars, themeVars, searchVars>>

\* mutant of fetchSettle: res.ok is not looked at
fetchSettle_anyResponse(p) ==
  /\ p \in pending /\ p.kind = "fetch"
  /\ pending' = pending \ {p}
  /\ IF p.outcome # "rejected"
       THEN /\ status' = "success"
            /\ addToast(SuccessMessage, "success")
            /\ name' = <<>> /\ email' = <<>> /\ subject' = <<>> /\ message' = <<>>
            /\ touched' = [f \in Fields |-> FALSE]
            /\ resets' = resets + 1
            /\ UNCHANGED <<action, calls>>
       ELSE Caught(RejectedMessage)
  /\ UNCHANGED <<viewsVars, themeVars, searchVars>>

\* the fetch of a submission settles: lines 65 to 81
fetchSettle(p) ==
  /\ p \in pending /\ p.kind = "fetch"
  /\ pending' = pending \ {p}
  /\ IF p.outcome = "ok"
       THEN /\ status' = "success"
            /\ addToast(SuccessMessage, "success")
            /\ name' = <<>> /\ email' = <<>> /\ subject' = <<>> /\ message' = <<>>
            /\ touched' = [f \in Fields |-> FALSE]
            /\ resets' = resets + 1
            /\ UNCHANGED <<action, calls>>
       ELSE Caught(IF p.outcome = "notOk" THEN NotOkMessage ELSE RejectedMessage)
  /\ UNCHANGED <<viewsVars, themeVars, searchVars>>

\* a 3000 ms timer of line 80 fires
resetStatus ==
  /\ resets > 0
  /\ resets' = resets - 1
  /\ status' = "idle"
  /\ UNCHANGED <<action, name, email, subject, message, touched, pending, calls>>
  /\ UNCHANGED <<toastVars, viewsVars, themeVars, searchVars>>

\* the oldest duration timer of a toast fires
timerDismiss ==
  /\ dismissals # <<>>
  /\ dismiss(Head(dismissals))
  /\ dismissals' = Tail(dismissals)
  /\ UNCHANGED <<nextId, formVars, viewsVars, themeVars, searchVars>>

\* the close button of a toast that is shown
closeToast(id) ==
  /\ \E k \in 1..Len(toasts) : toasts[k].id = id
  /\ dismiss(id)
  /\ UNCHANGED <<nextId, dismissals, formVars, viewsVars, themeVars, searchVars>>

NextForm ==
  \/ \E f \in Fields : \E v \in Typed[f] : input(f, v)
  \/ \E f \in Fields : touch(f)
  \/ handleSubmit
  \/ \E p \in pending : delayEnd(p)
  \/ \E p \in pending : fetchSettle(p)
  \/ resetStatus
  \/ timerDismiss
  \/ \E id \in 1..nextId : closeToast(id)

SpecForm == InitForm /\ [][NextForm]_vars

\* -------------------------------------------------------------------- C17

\* C17: at most one submission is in flight, and while one is in flight
\* status is 'submitting' (the submit button is disabled).
C17_OneInFlight ==
  /\ Cardinality(pending) <= 1
  /\ pending # {} => status = "submitting"

\* -------------------------------------------------------------------- C18

\* some field fails its rule
FailsRule ==
  \/ Len(Trim(name)) < 2
  \/ ~EmailPattern(email)
  \/ Len(Trim(subject)) < 3
  \/ Len(Trim(message)) < 10

\* C18: a handleSubmit call while some field fails its rule marks all four
\* fields touched and changes nothing else: no request is sent, no toast is
\* added, no timer is set, status and the field values stay as they are.
C18_InvalidSubmit ==
  [][(calls' = calls + 1 /\ FailsRule) =>
       /\ touched' = [f \in Fields |-> TRUE]
       /\ pending' = pending
       /\ status' = status
       /\ resets' = resets
       /\ <<name, email, subject, message>>' = <<name, email, subject, message>>
       /\ UNCHANGED toastVars]_vars

\* handleSubmit was called, only with a field failing its rule: here the name
\* that is too short once trimmed; nothing was sent and no toast was given
C18_Witness ==
  /\ calls >= 1
  /\ name = <<" ", "A", " ">>
  /\ EmailPattern(email) /\ Len(Trim(subject)) >= 3 /\ Len(Trim(message)) >= 10
  /\ touched = [f \in Fields |-> TRUE]
  /\ status = "idle" /\ pending = {} /\ resets = 0
  /\ nextId = 0 /\ toasts = <<>>

\* -------------------------------------------------------------------- C19

\* C19: when the delay of a submission without action URL ends, status
\* becomes 'success' and a success toast is added.
C19_SimulatedSuccess ==
  [][\A p \in pending :
       (p.kind = "delay" /\ p \notin pending') =>
          /\ status' = "success"
          /\ Len(toasts') = Len(toasts) + 1
          /\ toasts'[Len(toasts')].type = "success"]_vars

\* -------------------------------------------------------------------- C20

\* C20: when the fetch of a submission settles, status becomes 'success' if
\* the response is OK and 'error' if it is not OK or the fetch rejected;
\* exactly one toast is added, a success toast with all fields emptied and
\* all touched flags cleared on success, an error toast with the field values
\* left as they are on error.
C20_Outcome ==
  [][\A p \in pending :
       (p.kind = "fetch" /\ p \notin pending') =>
          /\ status' = IF p.outcome = "ok" THEN "success" ELSE "error"
          /\ Len(toasts') = Len(toasts) + 1
          /\ SubSeq(toasts', 1, Len(toasts)) = toasts
          /\ toasts'[Len(toasts')].type = status'
          /\ p.outcome = "ok" =>
               /\ <<name, email, subject, message>>' = <<<<>>, <<>>, <<>>, <<>>>>
               /\ touched' = [f \in Fields |-> FALSE]
          /\ p.outcome # "ok" =>
               <<name, email, subject, message>>' = <<name, email, subject, message>>]_vars

\* a submission that got a response that is not OK left an error toast and
\* the fields; the next one got an OK response: a success toast, empty fields
C20_Witness ==
  /\ action # ""
  /\ calls = 2 /\ pending = {}
  /\ Len(toasts) = 2
  /\ toasts[1].type = "error" /\ toasts[1].message = NotOkMessage
  /\ toasts[2].type = "success" /\ toasts[2].message = SuccessMessage
  /\ status = "success"
  /\ <<name, email, subject, message>> = <<<<>>, <<>>, <<>>, <<>>>>
  /\ touched = [f \in Fields |-> FALSE]

\* -------------------------------------------------------------------- C21

\* the timers fire and every delay and every fetch settles; the user's own
\* steps (typing, blur, submit, closing a toast) carry no fairness
FairForm ==
  /\ WF_vars(resetStatus)
  /\ WF_vars(\E p \in pending : delayEnd(p))
  /\ WF_vars(\E p \in pending : fetchSettle(p))

SpecFormFair == SpecForm /\ FairForm

\* given that requests settle, status leaves 'submitting'
C21_LeavesSubmitting == (status = "submitting") ~> (status # "submitting")

\* once no further submission is started, status is back at 'idle' for good
C21_ReturnsToIdle == <>[](status = "idle")

\* C21: status follows idle -> submitting -> (success | error) -> idle:
\* status becomes 'success' or 'error' only in a step from 'submitting',
\* and returns to 'idle' only from 'success' or 'error'.
C21_StatusCycle ==
  [][status' # status =>
       /\ status' \in {"success", "error"} => status = "submitting"
       /\ status' = "idle" => status \in {"success", "error"}]_vars

\* -------------------------------------------------------------------- C22

\* mutant of errors: the touched flags are not looked at
errors_untouched ==
  [ name    |-> IF Len(Trim(name)) < 2 THEN "Please enter your name." ELSE "",
    email   |-> IF ~EmailPattern(email) THEN "Please enter a valid email address." ELSE "",
    subject |-> IF Len(Trim(subject)) < 3 THEN "Please enter a subject." ELSE "",
    message |-> IF Len(Trim(message)) < 10
                  THEN "Message must be at least 10 characters." ELSE "" ]

\* the derived error messages, one per field
errors ==
  [ name    |-> IF touched.name /\ Len(Trim(name)) < 2
                  THEN "Please enter your name." ELSE "",
    email   |-> IF touched.email /\ ~EmailPattern(email)
                  THEN "Please enter a valid email address." ELSE "",
    subject |-> IF touched.subject /\ Len(Trim(subject)) < 3
                  THEN "Please enter a subject." ELSE "",
    message |-> IF touched.message /\ Len(Trim(message)) < 10
                  THEN "Message must be at least 10 characters." ELSE "" ]

\* field f fails its rule
Fails(f) ==
  CASE f = "name" -> Len(Trim(name)) < 2
    [] f = "email" -> ~EmailPattern(email)
    [] f = "subject" -> Len(Trim(subject)) < 3
    [] f = "message" -> Len(Trim(message)) < 10

\* C22: a field's error message is non-empty only if the field is touched and
\* fails its rule; when all four fields are touched, isValid holds exactly
\* when all four messages are empty; and isValid is a function of the field
\* values alone (it holds exactly when no field fails its rule, whatever the
\* touched flags are).
C22_Validation ==
  /\ \A f \in Fields : errors[f] # "" => (touched[f] /\ Fails(f))
  /\ (\A f \in Fields : touched[f]) =>
        (isValid <=> \A f \in Fields : errors[f] = "")
  /\ isValid <=> ~FailsRule

\* a touched name that is too short once trimmed shows its message, an
\* untouched email that fails the pattern shows none, and isValid is false
C22_Witness ==
  /\ touched.name /\ name = <<" ", "A", " ">> /\ errors.name = "Please enter your name."
  /\ ~touched.email /\ email = <<"a", "@", "b">> /\ errors.email = ""
  /\ touched.subject /\ subject = <<"H", "e", "y">> /\ errors.subject = ""
  /\ ~isValid

\* -------------------------------------------------------------------- C23

\* the duration timers of the toasts fire
FairToast == WF_vars(timerDismiss)

SpecToastFair == SpecForm /\ FairForm /\ FairToast

\* the toast with this id is in the list
Shown(id) == \E k \in 1..Len(toasts) : toasts[k].id = id

\* the positions of the list that hold another id than this one
Others(id) == {k \in 1..Len(toasts) : toasts[k].id # id}

\* the step leaves the list without the toast of this id: the other toasts
\* stay, in their order, and nothing else is in the list
RemovedOnly(id) ==
  /\ Len(toasts') = Cardinality(Others(id))
  /\ \A k \in Others(id) :
       toasts'[Cardinality({j \in Others(id) : j <= k})] = toasts[k]

C24_ToastIds ==
  /\ [](/\ \A i, j \in 1..Len(toasts) : i < j => toasts[i].id < toasts[j].id
        /\ \A k \in 1..Len(toasts) : toasts[k].id >= 1 /\ toasts[k].id <= nextId)
  /\ [][/\ nextId' >= nextId
        /\ \A k \in 1..Len(toasts') :
             (\A j \in 1..Len(toasts) : toasts[j].id # toasts'[k].id) =>
                toasts'[k].id > nextId]_vars

\* toast 1 is gone, its timer has fired, and the toast added after it has id 2
C24_Witness ==
  /\ nextId = 2
  /\ Len(toasts) = 1 /\ toasts[1].id = 2
  /\ dismissals = <<2>>

\* ------------------------------------------------------------ the post search

\* the most posts handed to the search
MaxPosts == 3

\* the most clicks on the tag buttons
MaxClicks == 2

\* a post without tags
NoTags == [given |-> FALSE, list |-> <<>>]
Tagged(l) == [given |-> TRUE, list |-> l]

\* the posts a page can hand over: title, description, tags
Catalog ==
  { [slug |-> "p1", title |-> <<"G", "o">>, description |-> <<"a", " ", "b">>,
     tags |-> Tagged(<<"x">>)],
    [slug |-> "p2", title |-> <<"g", "o", " ", "o", "n">>, description |-> <<>>,
     tags |-> NoTags],
    [slug |-> "p3", title |-> <<"A", "b">>, description |-> <<"G", "O">>,
     tags |-> Tagged(<<"y", "x">>)] }

\* the posts props: every list of up to MaxPosts posts
PostLists == UNION {[1..n -> Catalog] : n \in 0..MaxPosts}

\* what the user types into the search input
Queries == {<<>>, <<" ">>, <<"g", "o">>, <<" ", "G", "O", " ">>, <<"b">>, <<"z">>}

\* String.prototype.toLowerCase, on the letters used
LowerChar(c) ==
  CASE c = "A" -> "a" [] c = "B" -> "b" [] c = "G" -> "g" [] c = "O" -> "o"
    [] OTHER -> c
toLowerCase(s) == [k \in 1..Len(s) |-> LowerChar(s[k])]

\* String.prototype.includes
includes(s, q) ==
  \E i \in 0..(Len(s) - Len(q)) : SubSeq(s, i + 1, i + Len(q)) = q

\* post.tags ?? []
tagsOf(post) == IF post.tags.given THEN post.tags.list ELSE <<>>

\* the tags in sorted order
TagOrder == <<"x", "y">>

\* allTags: the tags of the posts, each once, sorted
allTags ==
  SelectSeq(TagOrder, LAMBDA t :
    \E k \in 1..Len(posts) : \E j \in 1..Len(tagsOf(posts[k])) : tagsOf(posts[k])[j] = t)

\* mutant of filteredPosts: the query is not trimmed
filteredPosts_noTrim ==
  SelectSeq(posts, LAMBDA post :
    LET q == toLowerCase(query)
        matchesQuery == \/ q = <<>>
                        \/ includes(toLowerCase(post.title), q)
                        \/ includes(toLowerCase(post.description), q)
        matchesTag == \/ activeTag = ""
                      \/ \E j \in 1..Len(tagsOf(post)) : tagsOf(post)[j] = activeTag
    IN matchesQuery /\ matchesTag)

\* filteredPosts
filteredPosts ==
  SelectSeq(posts, LAMBDA post :
    LET q == toLowerCase(Trim(query))
        matchesQuery == \/ q = <<>>
                        \/ includes(toLowerCase(post.title), q)
                        \/ includes(toLowerCase(post.description), q)
        matchesTag == \/ activeTag = ""
                      \/ \E j \in 1..Len(tagsOf(post)) : tagsOf(post)[j] = activeTag
    IN matchesQuery /\ matchesTag)

InitSearch ==
  /\ posts \in PostLists
  /\ query = <<>>
  /\ activeTag = ""
  /\ clicks = 0
  /\ lastClick = ""
  /\ NoRequests
  /\ NoTabs
  /\ Mounted("")

\* bind:value of the search input
typeQuery(v) ==
  /\ query' = v
  /\ UNCHANGED <<posts, activeTag, clicks, lastClick>>
  /\ UNCHANGED <<viewsVars, themeVars, formVars, toastVars>>

\* the clear button, shown while the query is not empty
clearQuery ==
  /\ query # <<>>
  /\ query' = <<>>
  /\ UNCHANGED <<posts, activeTag, clicks, lastClick>>
  /\ UNCHANGED <<viewsVars, themeVars, formVars, toastVars>>

\* the All button, shown when there are tags
clickAll ==
  /\ allTags # <<>>
  /\ clicks < MaxClicks
  /\ activeTag' = ""
  /\ clicks' = clicks + 1
  /\ lastClick' = "All"
  /\ UNCHANGED <<posts, query>>
  /\ UNCHANGED <<viewsVars, themeVars, formVars, toastVars>>

\* the button of tag number k of allTags
clickTag(k) ==
  /\ k \in 1..Len(allTags)
  /\ clicks < MaxClicks
  /\ activeTag' = IF activeTag = allTags[k] THEN "" ELSE allTags[k]
  /\ clicks' = clicks + 1
  /\ lastClick' = allTags[k]
  /\ UNCHANGED <<posts, query>>
  /\ UNCHANGED <<viewsVars, themeVars, formVars, toastVars>>

NextSearch ==
  \/ \E v \in Queries : typeQuery(v)
  \/ clearQuery
  \/ clickAll
  \/ \E k \in 1..Len(TagOrder) : clickTag(k)

SpecSearch == InitSearch /\ [][NextSearch]_vars

\* -------------------------------------------------------------------- C25

\* the query as it is compared: trimmed, in lower case
Needle == toLowerCase(Trim(query))

\* post number k satisfies both filters
Satisfies(k) ==
  /\ \/ Len(Needle) = 0
     \/ \E i \in 1..Len(posts[k].title) :
          i + Len(Needle) - 1 <= Len(posts[k].title)
          /\ \A d \in 1..Len(Needle) : LowerChar(posts[k].title[i + d - 1]) = Needle[d]
     \/ \E i \in 1..Len(posts[k].description) :
          i + Len(Needle) - 1 <= Len(posts[k].description)
          /\ \A d \in 1..Len(Needle) :
               LowerChar(posts[k].description[i + d - 1]) = Needle[d]
  /\ \/ activeTag = ""
     \/ /\ posts[k].tags.given
        /\ \E j \in 1..Len(posts[k].tags.list) : posts[k].tags.list[j] = activeTag

\* the positions of the posts that satisfy both filters
Hits == {k \in 1..Len(posts) : Satisfies(k)}

\* C25: the search result holds exactly the posts that satisfy both filters,
\* in the order of the input; with an empty or whitespace-only query and no
\* active tag it is the full list; a click on the active tag or on All clears
\* the tag, a click on another tag makes it the active one, and neither
\* changes the query.
C25_SearchResult ==
  /\ [](/\ Len(filteredPosts) = Cardinality(Hits)
        /\ \A k \in Hits :
             filteredPosts[Cardinality({j \in Hits : j <= k})] = posts[k]
        /\ ((\A i \in 1..Len(query) : query[i] \in WhiteSpace) /\ activeTag = "") =>
              filteredPosts = posts)
  /\ [][clicks' = clicks + 1 =>
          /\ query' = query
          /\ (lastClick' = "All" \/ lastClick' = activeTag) => activeTag' = ""
          /\ (lastClick' # "All" /\ lastClick' # activeTag) => activeTag' = lastClick']_vars

\* three posts, the query " GO " and the tag "x" after a click on "y" and one
\* on "x": the result is the first and the third post, in that order
C25_Witness ==
  /\ Len(posts) = 3
  /\ posts[1].slug = "p1" /\ posts[2].slug = "p2" /\ posts[3].slug = "p3"
  /\ query = <<" ", "G", "O", " ">>
  /\ activeTag = "x" /\ lastClick = "x" /\ clicks = 2
  /\ Len(filteredPosts) = 2
  /\ filteredPosts[1].slug = "p1" /\ filteredPosts[2].slug = "p3"

====
